---------------------------- MODULE Spec2Model ----------------------------
(***************************************************************************)
(* A state-machine model of lint/scheme.py: the colour scheme generator    *)
(* of SublimeLinter (classes Scheme, XmlScheme, JsonScheme, init_scheme).  *)
(*                                                                         *)
(* Strings are modelled as sequences of lexical tokens (a file name        *)
(* "Monokai (SL).hidden-tmTheme" is <<"Monokai"," ","(SL)",".","hidden-",  *)
(* "tmTheme">>), paths as sequences of such components, so that split,     *)
(* basename, splitext, re.sub, re.match and re.search are computed and not *)
(* assumed.  None and the empty string are both the empty sequence.        *)
(***************************************************************************)
EXTENDS Integers, Sequences, FiniteSets, TLC

(***************************************************************************)
(* Generic sequence helpers                                                *)
(***************************************************************************)
Last(s) == s[Len(s)]

Range(s) == {s[i] : i \in 1..Len(s)}

RECURSIVE SetToSeq(_)
SetToSeq(S) ==
    IF S = {} THEN <<>>
    ELSE LET x == CHOOSE y \in S : TRUE IN <<x>> \o SetToSeq(S \ {x})

RECURSIVE SelectSeqBy(_, _)
\* [x for x in s if Keep[x]] with Keep a set of admitted elements
SelectSeqBy(s, Keep) ==
    IF s = <<>> THEN <<>>
    ELSE (IF Head(s) \in Keep THEN <<Head(s)>> ELSE <<>>) \o SelectSeqBy(Tail(s), Keep)

(***************************************************************************)
(* Tokens                                                                  *)
(***************************************************************************)
Space == " "

Digits == {"0", "1", "2"}

\* tokens made of \w characters only
WordTokens == {"sublimelinter", "mark", "error", "gutter", "style_", "comment",
               "a", "b"} \cup Digits

(***************************************************************************)
(* Scope names used by the style definitions and the themes                *)
(***************************************************************************)
ScopeComment == <<"comment">>

ScopeError == <<"sublimelinter", ".", "mark", ".", "error">>

\* only two digits: DYN_PAT does not match, the scope is static
ScopeShort == <<"sublimelinter", ".", "gutter", ".", "style_", "0", "1">>

ScopeDyn1 == <<"sublimelinter", ".", "gutter", ".", "style_", "0", "0", "1">>

ScopeDyn2 == <<"sublimelinter", ".", "gutter", ".", "style_", "0", "0", "2">>

(***************************************************************************)
(* DYN_PAT = sublimelinter\.\w+?\.style_\d{3,}                             *)
(***************************************************************************)
DynMatchAt(s, i) ==
    /\ i >= 1
    /\ i + 1 <= Len(s)
    /\ s[i] = "sublimelinter"
    /\ s[i + 1] = "."
    /\ \E k \in 1..Len(s) :
          /\ i + 6 + k <= Len(s)
          /\ \A j \in (i + 2)..(i + 1 + k) : s[j] \in WordTokens
          /\ s[i + 2 + k] = "."
          /\ s[i + 3 + k] = "style_"
          /\ \A j \in (i + 4 + k)..(i + 6 + k) : s[j] \in Digits

\* re.match(DYN_PAT, scope): anchored at the start
DynMatch(scope) == DynMatchAt(scope, 1)

\* re.search(DYN_PAT, scope): anywhere in the string
DynSearch(scope) == \E i \in 1..Len(scope) : DynMatchAt(scope, i)

(***************************************************************************)
(* str.split(): the maximal runs of non-whitespace tokens                  *)
(***************************************************************************)
RECURSIVE SplitWsFrom(_, _)
\* cur is the run collected so far
SplitWsFrom(s, cur) ==
    IF s = <<>> THEN (IF cur = <<>> THEN <<>> ELSE <<cur>>)
    ELSE IF Head(s) = Space
         THEN (IF cur = <<>> THEN <<>> ELSE <<cur>>) \o SplitWsFrom(Tail(s), <<>>)
         ELSE SplitWsFrom(Tail(s), Append(cur, Head(s)))

SplitWs(s) == SplitWsFrom(s, <<>>)

(***************************************************************************)
(* Theme rules.  A rule of either format is a record: has_scope tells      *)
(* whether the rule has a scope field at all, settings is the ordered list *)
(* of its <<key, value>> style entries.                                    *)
(***************************************************************************)
Rule(has, scope, name, settings) ==
    [has_scope |-> has, scope |-> scope, name |-> name, settings |-> settings]

\* dict.get(key) on an ordered list of <<key, value>> pairs; "" when absent
Get(pairs, key) ==
    IF \E i \in 1..Len(pairs) : pairs[i][1] = key
    THEN pairs[CHOOSE i \in 1..Len(pairs) : pairs[i][1] = key][2]
    ELSE ""

\* str.upper() on the colour values the styles use
Upper(v) ==
    CASE v = "#ff0000" -> "#FF0000"
      [] v = "#00ff00" -> "#00FF00"
      [] OTHER -> v

UsedKeys == {"foreground", "background", "font_style"}

\* rank of a key in sorted order, as json.dumps(sort_keys=True) writes them
KeyRank(k) ==
    CASE k = "background" -> 1
      [] k = "fontStyle" -> 2
      [] k = "font_style" -> 3
      [] k = "foreground" -> 4
      [] OTHER -> 5

RECURSIVE SortPairs(_)
SortPairs(pairs) ==
    IF pairs = <<>> THEN <<>>
    ELSE LET i == CHOOSE j \in 1..Len(pairs) :
                     \A k \in 1..Len(pairs) : KeyRank(pairs[j][1]) <= KeyRank(pairs[k][1])
             rest == [k \in 1..(Len(pairs) - 1) |-> IF k < i THEN pairs[k] ELSE pairs[k + 1]]
         IN <<pairs[i]>> \o SortPairs(rest)

(***************************************************************************)
(* Registries: static_nodes and dynamic_nodes are dicts, modelled as       *)
(* insertion-ordered lists of [scope, node] entries with unique scopes.    *)
(***************************************************************************)
Entry(scope, node) == [scope |-> scope, node |-> node]

Keys(d) == {d[i].scope : i \in 1..Len(d)}

Values(d) == [i \in 1..Len(d) |-> d[i].node]

\* d[scope] = node
DictSet(d, scope, node) ==
    IF scope \in Keys(d)
    THEN [i \in 1..Len(d) |-> IF d[i].scope = scope THEN Entry(scope, node) ELSE d[i]]
    ELSE Append(d, Entry(scope, node))

RECURSIVE FilterKeys(_, _)
\* {k: v for k, v in d.items() if k in keep}
FilterKeys(d, keep) ==
    IF d = <<>> THEN <<>>
    ELSE (IF Head(d).scope \in keep THEN <<Head(d)>> ELSE <<>>) \o FilterKeys(Tail(d), keep)

(***************************************************************************)
(* XmlScheme.assemble_node and JsonScheme.assemble_node                    *)
(***************************************************************************)
XmlNode(scope, input_dict, name) ==
    LET fg == Get(input_dict, "foreground")
        bg == Get(input_dict, "background")
        fs == Get(input_dict, "font_style")
    IN Rule(TRUE, scope, IF name = <<>> THEN scope ELSE name,
            (IF fg # "" THEN <<<<"foreground", Upper(fg)>>>> ELSE <<>>)
            \o (IF bg # "" THEN <<<<"background", Upper(bg)>>>> ELSE <<>>)
            \o (IF fs # "" THEN <<<<"fontStyle", fs>>>> ELSE <<>>))

RECURSIVE UsedPairs(_)
UsedPairs(input_dict) ==
    IF input_dict = <<>> THEN <<>>
    ELSE (IF Head(input_dict)[1] \in UsedKeys THEN <<Head(input_dict)>> ELSE <<>>)
         \o UsedPairs(Tail(input_dict))

JsonNode(scope, input_dict, name) ==
    Rule(TRUE, scope, IF name = <<>> THEN scope ELSE name, UsedPairs(input_dict))

\* the registry the node goes to: re.match(DYN_PAT, scope)
IsDynamicScope(scope) == DynMatch(scope)

\* assemble_node on the registries reg = [static_nodes, dynamic_nodes]
assemble_node(engine, reg, scope, input_dict, name) ==
    LET node == IF engine = "xml" THEN XmlNode(scope, input_dict, name)
                ELSE JsonNode(scope, input_dict, name)
    IN IF IsDynamicScope(scope)
       THEN [reg EXCEPT !.dynamic_nodes = DictSet(@, scope, node)]
       ELSE [reg EXCEPT !.static_nodes = DictSet(@, scope, node)]

(***************************************************************************)
(* JsonScheme.parse_scheme_json(nodes, rules=...)                          *)
(* nodes is [is_dict, items]: a dict, or (from parse_scheme_xml) a list of *)
(* scopes whose entries carry no node.  The result is [raised, nodes]:     *)
(* list.items() raises AttributeError.                                     *)
(***************************************************************************)
NoRule == Rule(FALSE, <<>>, <<>>, <<>>)

AsDict(items) == [is_dict |-> TRUE, items |-> items]

AsList(scopes) == [is_dict |-> FALSE, items |-> [i \in 1..Len(scopes) |-> Entry(scopes[i], NoRule)]]

EmptyDict == AsDict(<<>>)

\* the scope field taken as one scope, without split()
DeclaredScopesWhole(rule) == IF rule.has_scope /\ rule.scope # <<>> THEN {rule.scope} ELSE {}

\* node.get("scope", "").split()
DeclaredScopes(rule) == Range(SplitWs(IF rule.has_scope THEN rule.scope ELSE <<>>))

RECURSIVE ScanRules(_, _, _)
\* the for loop: [done |-> returned {} early, left |-> unfound_keys]
ScanRules(rules, i, unfound_keys) ==
    IF i > Len(rules) THEN [done |-> FALSE, left |-> unfound_keys]
    ELSE LET left == unfound_keys \ DeclaredScopes(rules[i])
         IN IF left = {} THEN [done |-> TRUE, left |-> left]
            ELSE ScanRules(rules, i + 1, left)

parse_scheme_json(nodes, rules) ==
    LET scan == ScanRules(rules, 1, Keys(nodes.items))
    IN IF scan.done THEN [raised |-> FALSE, nodes |-> EmptyDict]
       ELSE IF ~nodes.is_dict THEN [raised |-> TRUE, nodes |-> EmptyDict]
       ELSE [raised |-> FALSE, nodes |-> AsDict(FilterKeys(nodes.items, scan.left))]

(***************************************************************************)
(* JsonScheme.remove_dyn_rules                                             *)
(***************************************************************************)
RECURSIVE remove_dyn_rules(_)
remove_dyn_rules(rules) ==
    IF rules = <<>> THEN <<>>
    ELSE (IF Head(rules).has_scope /\ ~DynSearch(Head(rules).scope)
          THEN <<Head(rules)>> ELSE <<>>) \o remove_dyn_rules(Tail(rules))

(***************************************************************************)
(* Scheme.parse_scheme_xml: MARK_COLOR_RE searched in the theme text.      *)
(* The pattern is <string>sublimelinter\.SCOPE</string>, then the settings *)
(* key and dict, any number of background/fontStyle entries and a          *)
(* foreground entry whose value is "#" and at least one more character.    *)
(***************************************************************************)
HashColors == {"#ff0000", "#00ff00", "#FF0000", "#00FF00"}

MarkColorMatch(rule, scope) ==
    /\ rule.has_scope
    /\ rule.scope = <<"sublimelinter", ".">> \o scope
    /\ \E k \in 1..Len(rule.settings) :
          /\ \A j \in 1..(k - 1) : rule.settings[j][1] \in {"background", "fontStyle"}
          /\ rule.settings[k][1] = "foreground"
          /\ rule.settings[k][2] \in HashColors

RECURSIVE parse_scheme_xml(_, _)
\* nodes: the list of scopes iterated; text_rules: the rules of the text
parse_scheme_xml(nodes, text_rules) ==
    IF nodes = <<>> THEN <<>>
    ELSE (IF \E i \in 1..Len(text_rules) : MarkColorMatch(text_rules[i], Head(nodes))
          THEN <<>> ELSE <<Head(nodes)>>) \o parse_scheme_xml(Tail(nodes), text_rules)

(***************************************************************************)
(* File names and paths                                                    *)
(***************************************************************************)
Drop(s, n) == SubSeq(s, n + 1, Len(s))

RECURSIVE StripMarkers(_)
\* re.sub(r" ?\(SL\) ?|hidden-", "", name)
StripMarkers(s) ==
    IF s = <<>> THEN <<>>
    ELSE IF Len(s) >= 2 /\ s[1] = Space /\ s[2] = "(SL)"
         THEN StripMarkers(Drop(s, IF Len(s) >= 3 /\ s[3] = Space THEN 3 ELSE 2))
    ELSE IF s[1] = "(SL)"
         THEN StripMarkers(Drop(s, IF Len(s) >= 2 /\ s[2] = Space THEN 2 ELSE 1))
    ELSE IF s[1] = "hidden-" THEN StripMarkers(Tail(s))
    ELSE <<s[1]>> \o StripMarkers(Tail(s))

\* os.path.basename
basename(path) == IF path = <<>> THEN <<>> ELSE Last(path)

\* os.path.splitext: the extension starts at the last dot, a leading dot aside
DotIndex(base) ==
    IF \E i \in 2..Len(base) : base[i] = "."
    THEN CHOOSE i \in 2..Len(base) :
            base[i] = "." /\ \A j \in (i + 1)..Len(base) : base[j] # "."
    ELSE Len(base) + 1

splitext(base) ==
    [name |-> SubSeq(base, 1, DotIndex(base) - 1), ext |-> Drop(base, DotIndex(base) - 1)]

\* sublime.packages_path(): an absolute directory
PackagesPath == << <<"<data>">>, <<"Packages">> >>

\* the resource name under which the host serves a file of the packages directory
ResourceOf(abs_path) == Tail(abs_path)

UserDir == <<"User">>

\* "Packages/User/" in t
InPackagesUser(t) ==
    \E i \in 1..Len(t) : i + 1 < Len(t) /\ t[i] = <<"Packages">> /\ t[i + 1] = UserDir

\* sublime.find_resources(pattern): the resources with that file name
find_resources(files, pattern) ==
    SetToSeq({r \in DOMAIN files : basename(r) = pattern})

\* Scheme.get_original_theme
get_original_theme(files, current_scheme_path) ==
    LET current_scheme_file == Last(current_scheme_path)
        pattern == StripMarkers(current_scheme_file)
        found == find_resources(files, pattern)
        theme_list == SelectSeqBy(found, {r \in Range(found) : ~InPackagesUser(r)})
    IN IF theme_list = <<>> THEN current_scheme_path ELSE theme_list[1]

\* util.get_path_components
get_path_components(path) == path

\* XmlScheme.packages_relative_path
packages_relative_path(path, prefix_packages) ==
    LET components == get_path_components(path)
    IN IF prefix_packages /\ components # <<>> /\ components[1] # <<"Packages">>
       THEN <<<<"Packages">>>> \o components
       ELSE components

\* init_scheme: the engine for a host version
JsonMinVersion == 3149

init_scheme(version, force_xml_scheme) ==
    IF version >= JsonMinVersion /\ ~force_xml_scheme THEN "json" ELSE "xml"

(***************************************************************************)
(* State.  The Scheme instance: engine (the class init_scheme chose),      *)
(* static_nodes, dynamic_nodes, prefs (whether self.prefs is a loaded      *)
(* settings object), scheme, paths.  The host: color_scheme (the active    *)
(* preference, <<>> when none), prefsFile (the state of                    *)
(* User/Preferences.sublime-settings), files (resource -> content),        *)
(* observer (the callback installed by persist.settings.observe_prefs),    *)
(* queue (callbacks given to sublime.set_timeout_async, in order) and      *)
(* styleDefs (the style definitions StyleParser.create_styles assembles).  *)
(* History: lastGen and lastAsync describe the latest generate call and    *)
(* the latest asynchronous pass, prevAsync the pass before it, epoch       *)
(* counts the changes made by the user, nGen and nEnv bound the run.       *)
(* dNodes, dRules, dOut, dFirst, dPhase belong to the diff specification.  *)
(***************************************************************************)
VARIABLES engine, static_nodes, dynamic_nodes, prefs, scheme, paths,
          color_scheme, prefsFile, files, observer, queue, styleDefs,
          lastGen, lastAsync, prevAsync, epoch, nGen, nEnv,
          dNodes, dRules, dOut, dFirst, dPhase

progVars == <<engine, static_nodes, dynamic_nodes, prefs, scheme, paths>>

hostVars == <<color_scheme, prefsFile, files, observer, queue, styleDefs>>

histVars == <<lastGen, lastAsync, prevAsync, epoch, nGen, nEnv>>

diffVars == <<dNodes, dRules, dOut, dFirst, dPhase>>

vars == <<progVars, hostVars, histVars, diffVars>>

\* the state as one record, which the handlers below transform
State ==
    [engine |-> engine, static_nodes |-> static_nodes, dynamic_nodes |-> dynamic_nodes,
     prefs |-> prefs, scheme |-> scheme, paths |-> paths,
     color_scheme |-> color_scheme, prefsFile |-> prefsFile, files |-> files,
     observer |-> observer, queue |-> queue, styleDefs |-> styleDefs,
     lastGen |-> lastGen, lastAsync |-> lastAsync, prevAsync |-> prevAsync,
     epoch |-> epoch, nGen |-> nGen, nEnv |-> nEnv]

Commit(s) ==
    /\ engine' = s.engine
    /\ static_nodes' = s.static_nodes
    /\ dynamic_nodes' = s.dynamic_nodes
    /\ prefs' = s.prefs
    /\ scheme' = s.scheme
    /\ paths' = s.paths
    /\ color_scheme' = s.color_scheme
    /\ prefsFile' = s.prefsFile
    /\ files' = s.files
    /\ observer' = s.observer
    /\ queue' = s.queue
    /\ styleDefs' = s.styleDefs
    /\ lastGen' = s.lastGen
    /\ lastAsync' = s.lastAsync
    /\ prevAsync' = s.prevAsync
    /\ epoch' = s.epoch
    /\ nGen' = s.nGen
    /\ nEnv' = s.nEnv

\* Scheme.__init__: self.paths = {}
NoPaths ==
    [usr_dir |-> <<>>, scheme_orig |-> <<>>, scheme_base |-> <<>>, scheme_name |-> <<>>,
     ext |-> <<>>, usr_dir_rel |-> <<>>, usr_dir_abs |-> <<>>]

NoRegistry == [static_nodes |-> <<>>, dynamic_nodes |-> <<>>]

(***************************************************************************)
(* Scheme.generate and what it calls                                       *)
(***************************************************************************)
RECURSIVE AssembleAll(_, _, _)
AssembleAll(eng, reg, defs) ==
    IF defs = <<>> THEN reg
    ELSE AssembleAll(eng, assemble_node(eng, reg, Head(defs).scope, Head(defs).style, <<>>),
                     Tail(defs))

\* style.StyleParser().create_styles(): assembles a node for every style definition
create_styles(s) ==
    LET reg == AssembleAll(s.engine,
                           [static_nodes |-> s.static_nodes, dynamic_nodes |-> s.dynamic_nodes],
                           s.styleDefs)
    IN [s EXCEPT !.static_nodes = reg.static_nodes, !.dynamic_nodes = reg.dynamic_nodes]

\* Scheme.update_paths
update_paths(s) == [s EXCEPT !.paths.usr_dir = PackagesPath \o <<UserDir>>]

\* Scheme.get_settings: [s, raised]
get_settings(s) ==
    IF s.prefsFile = "invalid" THEN [s |-> s, raised |-> FALSE]
    ELSE LET s1 == [s EXCEPT !.prefs = TRUE, !.scheme = s.color_scheme]
         IN IF s1.scheme = <<>>
            \* None.split: AttributeError
            THEN [s |-> s1, raised |-> TRUE]
            ELSE LET orig == get_original_theme(s1.files, s1.scheme)
                     base == basename(orig)
                     usr_dir_rel == <<UserDir, <<"SublimeLinter">>>>
                 IN [s |-> [s1 EXCEPT !.paths.scheme_orig = orig,
                                      !.paths.scheme_base = base,
                                      !.paths.scheme_name = splitext(base).name,
                                      !.paths.ext = splitext(base).ext,
                                      !.paths.usr_dir_rel = usr_dir_rel,
                                      !.paths.usr_dir_abs = PackagesPath \o usr_dir_rel],
                     raised |-> FALSE]

\* whether a file name carries a marker of a derived theme
IsMarked(name) == \E i \in 1..Len(name) : name[i] \in {"(SL)", "hidden-"}

\* the callback given to set_timeout_async, with what its own generate call saw
Task(s, from_reload) ==
    LET own == AssembleAll(s.engine, NoRegistry, s.styleDefs)
    IN [from_reload |-> from_reload, own_paths |-> s.paths, own_scheme |-> s.scheme,
        own_static |-> own.static_nodes, own_dynamic |-> own.dynamic_nodes,
        epoch |-> s.epoch, clean |-> s.queue = <<>>]

GenRecord(s0, from_reload, raised, scheduled, resolved) ==
    [valid |-> TRUE, from_reload |-> from_reload,
     unusable |-> s0.prefsFile # "valid" \/ s0.color_scheme = <<>>,
     raised |-> raised, scheduled |-> scheduled, resolved |-> resolved,
     marked |-> s0.color_scheme # <<>> /\ IsMarked(Last(s0.color_scheme))]

generate(s0, from_reload) ==
    LET g == get_settings(update_paths(create_styles(s0)))
        s == g.s
    IN IF g.raised
       THEN [s EXCEPT !.lastGen = GenRecord(s0, from_reload, TRUE, FALSE, FALSE)]
       ELSE IF ~(s.prefs /\ s.scheme # <<>>)
       THEN [s EXCEPT !.lastGen = GenRecord(s0, from_reload, FALSE, FALSE, FALSE)]
       ELSE [s EXCEPT !.observer = IF from_reload THEN "prefs_reloaded" ELSE @,
                      !.queue = Append(@, Task(s, from_reload)),
                      !.lastGen = GenRecord(s0, from_reload, FALSE, TRUE,
                                            s0.prefsFile # "invalid")]

(***************************************************************************)
(* The preference observer.  persist.settings.observe_prefs(observer=f)    *)
(* installs f as the callback of preference changes, observe_prefs() the   *)
(* normal one, which regenerates with from_reload=True.                    *)
(***************************************************************************)
prefs_reloaded(s) == [s EXCEPT !.observer = "on_prefs_update"]

on_prefs_update(s) == generate(s, TRUE)

\* the host calls the installed callback when the preference changes
PrefsChanged(s) ==
    IF s.observer = "prefs_reloaded" THEN prefs_reloaded(s) ELSE on_prefs_update(s)

\* Scheme.set_scheme_path: [s, did_set, did_save]
set_scheme_path(s, path) ==
    IF path # s.scheme
    THEN LET s1 == [s EXCEPT !.color_scheme = path, !.prefsFile = "valid"]
         IN [s |-> IF path # s.color_scheme THEN PrefsChanged(s1) ELSE s1,
             did_set |-> TRUE, did_save |-> TRUE]
    ELSE [s |-> s, did_set |-> FALSE, did_save |-> FALSE]

(***************************************************************************)
(* Theme files                                                             *)
(***************************************************************************)
\* fmt "xml": a plist text (preamble: whether it starts with the XML
\* declaration and DOCTYPE); fmt "json": a document with a "rules" list
Content(fmt, preamble, rules) == [fmt |-> fmt, preamble |-> preamble, rules |-> rules]

\* json.dumps(theme, indent=4, sort_keys=True): every rule's keys sorted
Dump(rules) == [i \in 1..Len(rules) |-> [rules[i] EXCEPT !.settings = SortPairs(@)]]

KeySeq(d) == [i \in 1..Len(d) |-> d[i].scope]

\* all scopes declared by the rules of a JSON document
ScopesDeclaredIn(rules) == UNION {DeclaredScopes(rules[i]) : i \in 1..Len(rules)}

\* the static scopes a source theme does not define, by the theme's format
MissingIn(content, scopes) ==
    IF content.fmt = "json" THEN scopes \ ScopesDeclaredIn(content.rules)
    ELSE {sc \in scopes :
            ~\E i \in 1..Len(content.rules) : MarkColorMatch(content.rules[i], sc)}

(***************************************************************************)
(* The record of an asynchronous pass                                      *)
(***************************************************************************)
NoAsync ==
    [valid |-> FALSE, from_reload |-> FALSE, raised |-> FALSE, wrote |-> FALSE,
     target |-> <<>>, doc_exists |-> FALSE, doc_rules |-> <<>>,
     prev_exists |-> FALSE, prev_rules |-> <<>>, src_rules |-> <<>>,
     src_missing |-> {}, still_missing |-> {}, notice |-> FALSE, notice_scopes |-> {},
     dyn_rules |-> <<>>, set_called |-> FALSE, set_path |-> <<>>, active_before |-> <<>>,
     did_set |-> FALSE, did_save |-> FALSE, used_paths |-> NoPaths, own_paths |-> NoPaths,
     used_static |-> <<>>, used_dynamic |-> <<>>, own_static |-> <<>>, own_dynamic |-> <<>>,
     used_scheme |-> <<>>, own_scheme |-> <<>>, epoch |-> 0, clean |-> FALSE,
     quiet |-> FALSE]

StartAsync(s, task) ==
    [NoAsync EXCEPT !.valid = TRUE, !.from_reload = task.from_reload,
                    !.used_paths = s.paths, !.own_paths = task.own_paths,
                    !.used_static = s.static_nodes, !.used_dynamic = s.dynamic_nodes,
                    !.own_static = task.own_static, !.own_dynamic = task.own_dynamic,
                    !.used_scheme = s.scheme, !.own_scheme = task.own_scheme,
                    !.epoch = task.epoch, !.clean = task.clean,
                    !.quiet = s.epoch = task.epoch]

\* the pass ends: its record, with the derived document as it is on disk
Finish(s, rec) ==
    [s EXCEPT !.prevAsync = s.lastAsync,
              !.lastAsync = [rec EXCEPT !.doc_exists = rec.target \in DOMAIN s.files,
                                        !.doc_rules = IF rec.target \in DOMAIN s.files
                                                      THEN s.files[rec.target].rules
                                                      ELSE <<>>]]

\* the pass calls set_scheme_path(path) and ends
SetPathAndFinish(s, rec, path) ==
    LET r == set_scheme_path(s, path)
    IN Finish(r.s, [rec EXCEPT !.set_called = TRUE, !.set_path = path,
                               !.active_before = s.color_scheme,
                               !.did_set = r.did_set, !.did_save = r.did_save])

(***************************************************************************)
(* XmlScheme.generate_color_scheme_async                                   *)
(***************************************************************************)
XmlScheme_generate_color_scheme_async(s0) ==
    LET task == Head(s0.queue)
        s == [s0 EXCEPT !.queue = Tail(@)]
        src == s.paths.scheme_orig
        mod_name == s.paths.scheme_name \o <<Space, "(SL)">>
        mod_scheme_path == s.paths.usr_dir_abs \o <<mod_name \o <<".", "hidden-", "tmTheme">>>>
        target == ResourceOf(mod_scheme_path)
        rec0 == [StartAsync(s, task) EXCEPT !.target = target,
                     !.prev_exists = target \in DOMAIN s.files,
                     !.prev_rules = IF target \in DOMAIN s.files
                                    THEN s.files[target].rules ELSE <<>>,
                     !.dyn_rules = Values(s.dynamic_nodes)]
    IN IF src \notin DOMAIN s.files
       \* sublime.load_resource raises IOError
       THEN Finish(s, [rec0 EXCEPT !.raised = TRUE])
       ELSE LET scheme_text == s.files[src]
                missing == MissingIn(scheme_text, Keys(s.static_nodes))
                rec1 == [rec0 EXCEPT !.src_rules = scheme_text.rules,
                                     !.src_missing = missing, !.still_missing = missing]
            IN IF scheme_text.fmt # "xml"
               \* ElementTree.XML raises ParseError
               THEN Finish(s, [rec1 EXCEPT !.raised = TRUE])
               ELSE LET styles == scheme_text.rules \o Values(s.dynamic_nodes)
                        unfound == parse_scheme_xml(KeySeq(s.static_nodes), scheme_text.rules)
                        s1 == [s EXCEPT !.files =
                                  (target :> Content("xml", TRUE, styles)) @@ s.files]
                        scheme_path_rel ==
                            packages_relative_path(
                                s.paths.usr_dir_rel \o <<basename(mod_scheme_path)>>, TRUE)
                    IN SetPathAndFinish(s1,
                           [rec1 EXCEPT !.wrote = TRUE,
                                        !.notice = unfound # <<>>,
                                        !.notice_scopes = Range(unfound)],
                           scheme_path_rel)

(***************************************************************************)
(* JsonScheme.generate_color_scheme_async                                  *)
(***************************************************************************)
JsonExt == <<".", "sublime-color-scheme">>

JsonScheme_generate_color_scheme_async(s0) ==
    LET task == Head(s0.queue)
        s == [s0 EXCEPT !.queue = Tail(@)]
        original_scheme == get_original_theme(s.files, s.scheme)
        ext == s.paths.ext
        new_scheme_path == s.paths.usr_dir \o <<s.paths.scheme_name \o JsonExt>>
        target == ResourceOf(new_scheme_path)
        exists == target \in DOMAIN s.files
        old_rules == IF exists THEN s.files[target].rules ELSE <<>>
        rec0 == [StartAsync(s, task) EXCEPT !.target = target, !.prev_exists = exists,
                     !.prev_rules = old_rules,
                     !.dyn_rules = Dump(Values(s.dynamic_nodes))]
    IN IF original_scheme \notin DOMAIN s.files
       THEN Finish(s, [rec0 EXCEPT !.raised = TRUE])
       ELSE
       LET scheme_text == s.files[original_scheme]
           missing == MissingIn(scheme_text, Keys(s.static_nodes))
           rec1 == [rec0 EXCEPT !.src_rules = scheme_text.rules, !.src_missing = missing,
                       !.still_missing = missing \ ScopesDeclaredIn(old_rules)]
           is_json == ext = JsonExt
           is_tm == ext # <<>> /\ Last(ext) = "tmTheme"
       IN IF \/ ~is_json /\ ~is_tm                      \* raise Exception
             \/ is_json /\ scheme_text.fmt # "json"     \* str has no .get
             \/ ~is_json /\ scheme_text.fmt # "xml"     \* re.search on a dict
          THEN Finish(s, [rec1 EXCEPT !.raised = TRUE])
          ELSE
          LET unfound0 ==
                  IF is_json
                  THEN parse_scheme_json(AsDict(s.static_nodes), scheme_text.rules).nodes
                  ELSE AsList(parse_scheme_xml(KeySeq(s.static_nodes), scheme_text.rules))
          IN IF unfound0.items = <<>> /\ s.dynamic_nodes = <<>>
             \* "No nodes to include"
             THEN Finish(s, rec1)
             ELSE
             LET recheck == exists /\ old_rules # <<>> /\ unfound0.items # <<>>
                 again == parse_scheme_json(unfound0, old_rules)
                 unfound == IF recheck THEN again.nodes ELSE unfound0
                 notice == recheck /\ unfound.items # <<>>
                 cleaned_rules == IF exists /\ old_rules # <<>>
                                  THEN remove_dyn_rules(old_rules) ELSE <<>>
                 rules == cleaned_rules \o Values(s.dynamic_nodes)
                 s1 == [s EXCEPT !.files =
                           (target :> Content("json", FALSE, Dump(rules))) @@ s.files]
             IN IF recheck /\ again.raised
                \* AttributeError: 'list' object has no attribute 'items'
                THEN Finish(s, [rec1 EXCEPT !.raised = TRUE])
                ELSE SetPathAndFinish(s1,
                         [rec1 EXCEPT !.wrote = TRUE, !.notice = notice,
                                      !.notice_scopes = IF notice THEN Keys(unfound.items)
                                                        ELSE {}],
                         s.paths.scheme_orig)

(***************************************************************************)
(* The environment: themes, style definitions, bounds                      *)
(***************************************************************************)
\* calls of generate made from outside the observer
MaxGen == 2

\* changes made by the user
MaxEnv == 2

Red == <<<<"foreground", "#ff0000">>>>

CommentRule == Rule(TRUE, ScopeComment, <<"comment">>, Red)

\* one rule declaring two scopes
MultiRule == Rule(TRUE, ScopeComment \o <<Space>> \o ScopeError, <<"mark">>, Red)

\* a rule without a scope field
NoScopeRule == Rule(FALSE, <<>>, <<"a">>, <<<<"background", "#00ff00">>>>)

\* a dynamic rule left by an earlier pass
StaleDynRule == Rule(TRUE, ScopeDyn2, ScopeDyn2, Red)

\* the only block MARK_COLOR_RE finds for ScopeError
XmlMarkRule ==
    Rule(TRUE, <<"sublimelinter", ".">> \o ScopeError, <<"mark">>,
         <<<<"background", "#00FF00">>, <<"foreground", "#FF0000">>>>)

ThemeName == <<"Monokai">>

OrigLocs == {<<"Color Scheme - Default">>, UserDir}

OrigExts == {"tmTheme", "sublime-color-scheme"}

OrigPath(loc, ext) == <<<<"Packages">>, loc, ThemeName \o <<".", ext>>>>

OrigRuleSets(ext) ==
    IF ext = "tmTheme" THEN {<<CommentRule>>, <<CommentRule, XmlMarkRule>>}
    ELSE {<<CommentRule>>, <<CommentRule, MultiRule>>}

OrigContent(ext, rules) ==
    IF ext = "tmTheme" THEN Content("xml", TRUE, rules) ELSE Content("json", FALSE, rules)

\* a document in the user directory under the name the JSON engine writes to
UserDocPath == <<<<"Packages">>, UserDir, ThemeName \o JsonExt>>

UserDocs == {<<CommentRule, StaleDynRule>>, <<NoScopeRule, MultiRule>>}

StyleA == <<<<"foreground", "#ff0000">>, <<"mark_style", "outline">>>>

StyleB == <<<<"foreground", "#00ff00">>, <<"background", "#ff0000">>>>

StyleDef(scope, style) == [scope |-> scope, style |-> style]

StyleSets ==
    {<<>>,
     <<StyleDef(ScopeError, StyleA)>>,
     <<StyleDef(ScopeError, StyleA), StyleDef(ScopeDyn1, StyleB)>>,
     <<StyleDef(ScopeShort, StyleB), StyleDef(ScopeDyn2, StyleA)>>}

HostVersions == {3143, 3149}

NoGen ==
    [valid |-> FALSE, from_reload |-> FALSE, unusable |-> FALSE, raised |-> FALSE,
     scheduled |-> FALSE, resolved |-> FALSE, marked |-> FALSE]

DiffIdle ==
    /\ dNodes = <<>>
    /\ dRules = <<>>
    /\ dOut = EmptyDict
    /\ dFirst = EmptyDict
    /\ dPhase = "off"

Init ==
    /\ \E version \in HostVersions, force_xml_scheme \in BOOLEAN :
          engine = init_scheme(version, force_xml_scheme)
    /\ static_nodes = <<>>
    /\ dynamic_nodes = <<>>
    /\ prefs = FALSE
    /\ scheme = <<>>
    /\ paths = NoPaths
    /\ \E loc \in OrigLocs, ext \in OrigExts :
          \* the XML engine serves the hosts whose themes are tmTheme files
          /\ engine = "xml" => ext = "tmTheme"
          /\ color_scheme \in {OrigPath(loc, ext), <<>>}
          /\ \E rules \in OrigRuleSets(ext) :
                \/ files = (OrigPath(loc, ext) :> OrigContent(ext, rules))
                \/ /\ engine = "json"
                   /\ OrigPath(loc, ext) # UserDocPath
                   /\ \E doc \in UserDocs :
                         files = (OrigPath(loc, ext) :> OrigContent(ext, rules))
                                 @@ (UserDocPath :> Content("json", FALSE, doc))
    /\ prefsFile = "valid"
    /\ observer = "on_prefs_update"
    /\ queue = <<>>
    /\ styleDefs \in StyleSets
    /\ lastGen = NoGen
    /\ lastAsync = NoAsync
    /\ prevAsync = NoAsync
    /\ epoch = 0
    /\ nGen = 0
    /\ nEnv = 0
    /\ DiffIdle

(***************************************************************************)
(* Actions                                                                 *)
(***************************************************************************)
\* a call of Scheme.generate
Generate ==
    /\ nGen < MaxGen
    /\ \E from_reload \in BOOLEAN :
          Commit(generate([State EXCEPT !.nGen = @ + 1], from_reload))
    /\ UNCHANGED diffVars

\* the host runs the next callback given to set_timeout_async
XmlAsync ==
    /\ engine = "xml"
    /\ queue # <<>>
    /\ Commit(XmlScheme_generate_color_scheme_async(State))
    /\ UNCHANGED diffVars

JsonAsync ==
    /\ engine = "json"
    /\ queue # <<>>
    /\ Commit(JsonScheme_generate_color_scheme_async(State))
    /\ UNCHANGED diffVars

\* the user selects another colour scheme; the host saves the preferences
\* and calls the observer
UserSetColorScheme ==
    /\ nEnv < MaxEnv
    /\ \E p \in DOMAIN files \ {color_scheme} :
          Commit(PrefsChanged([State EXCEPT !.color_scheme = p, !.prefsFile = "valid",
                                            !.epoch = @ + 1, !.nEnv = @ + 1]))
    /\ UNCHANGED diffVars

\* the user removes or damages the preferences file, or repairs it
UserEditPrefsFile ==
    /\ nEnv < MaxEnv
    /\ \E st \in {"valid", "invalid", "missing"} \ {prefsFile} :
          Commit([State EXCEPT !.prefsFile = st, !.epoch = @ + 1, !.nEnv = @ + 1])
    /\ UNCHANGED diffVars

\* the style definitions change
ChangeStyles ==
    /\ nEnv < MaxEnv
    /\ \E defs \in StyleSets \ {styleDefs} :
          Commit([State EXCEPT !.styleDefs = defs, !.epoch = @ + 1, !.nEnv = @ + 1])
    /\ UNCHANGED diffVars

Next ==
    \/ Generate
    \/ XmlAsync
    \/ JsonAsync
    \/ UserSetColorScheme
    \/ UserEditPrefsFile
    \/ ChangeStyles

Spec == Init /\ [][Next]_vars

(***************************************************************************)
(* Properties of the generation passes                                     *)
(***************************************************************************)
\* the rules of a document whose scope matches the dynamic pattern
DynRulesOf(rules) ==
    SelectSeqBy(rules, {r \in Range(rules) : r.has_scope /\ DynSearch(r.scope)})

\* the rules of a document that are not dynamic rules of the plugin
OtherRulesOf(rules) == {r \in Range(rules) : ~(r.has_scope /\ DynSearch(r.scope))}

\* how many rules of a document declare exactly this scope
CountScope(rules, scope) ==
    Cardinality({i \in 1..Len(rules) : rules[i].has_scope /\ rules[i].scope = scope})

\* two passes in succession, nothing changed in between
TwoPassesInSuccession ==
    /\ prevAsync.valid /\ lastAsync.valid
    /\ ~prevAsync.raised /\ ~lastAsync.raised
    /\ lastAsync.clean /\ prevAsync.quiet /\ lastAsync.quiet
    /\ lastAsync.epoch = prevAsync.epoch
    /\ lastAsync.used_static = prevAsync.used_static
    /\ lastAsync.used_dynamic = prevAsync.used_dynamic

\* C1: a second generation pass with no intervening change leaves the derived
\* theme identical to what the first pass left, no dynamic rule more than once
C1_Idempotent ==
    TwoPassesInSuccession =>
        /\ lastAsync.doc_exists = prevAsync.doc_exists
        /\ lastAsync.doc_rules = prevAsync.doc_rules
        /\ \A sc \in Keys(lastAsync.used_dynamic) : CountScope(lastAsync.doc_rules, sc) <= 1

\* C2: after a pass of the JSON engine over a derived document that held
\* dynamic rules, the document holds exactly the current dynamic rules
C2_StalePurged ==
    (/\ lastAsync.valid
     /\ engine = "json"
     /\ lastAsync.prev_exists
     /\ DynRulesOf(lastAsync.prev_rules) # <<>>)
    => /\ lastAsync.doc_exists
       /\ DynRulesOf(lastAsync.doc_rules) = lastAsync.dyn_rules

\* C3: a pass of the JSON engine that writes keeps every rule of the original
\* theme and every non-dynamic rule of the previous derived document, followed
\* by the current dynamic rules
C3_RulesPreserved ==
    (lastAsync.valid /\ engine = "json" /\ lastAsync.wrote)
    => /\ \A r \in Range(lastAsync.src_rules) \cup OtherRulesOf(lastAsync.prev_rules) :
             r \in Range(lastAsync.doc_rules)
       /\ Len(lastAsync.doc_rules) >= Len(lastAsync.dyn_rules)
       /\ Drop(lastAsync.doc_rules, Len(lastAsync.doc_rules) - Len(lastAsync.dyn_rules))
             = lastAsync.dyn_rules

\* C4: a pass whose source theme lacks a static scope does not raise, writes
\* the derived theme and reports every static scope still missing
C4_MissingReported ==
    (lastAsync.valid /\ lastAsync.src_missing # {})
    => /\ ~lastAsync.raised
       /\ lastAsync.wrote
       /\ lastAsync.notice
       /\ lastAsync.still_missing \subseteq lastAsync.notice_scopes

\* C6: set_scheme_path(path) writes and saves the preference exactly when path
\* differs from the active color_scheme preference
C6_WriteSuppression ==
    lastAsync.set_called =>
        IF lastAsync.set_path = lastAsync.active_before
        THEN ~lastAsync.did_set /\ ~lastAsync.did_save
        ELSE lastAsync.did_set /\ lastAsync.did_save

\* C7: generate with unusable preferences returns without raising and
\* schedules nothing
C7_SilentAbort ==
    (lastGen.valid /\ lastGen.unusable) => ~lastGen.raised /\ ~lastGen.scheduled

PendingReload == \E i \in 1..Len(queue) : queue[i].from_reload

\* C8: the normal observer is inactive while a pass started with
\* from_reload=True is pending, and active again once it has completed
C8_ObserverAroundPass ==
    /\ PendingReload => observer = "prefs_reloaded"
    /\ (lastAsync.valid /\ lastAsync.from_reload /\ ~PendingReload)
          => observer = "on_prefs_update"

\* C9: an asynchronous pass works on the paths, the scheme and the nodes of
\* its own generate call only
C9_PassLocal ==
    lastAsync.valid =>
        /\ lastAsync.used_paths = lastAsync.own_paths
        /\ lastAsync.used_scheme = lastAsync.own_scheme
        /\ lastAsync.used_static = lastAsync.own_static
        /\ lastAsync.used_dynamic = lastAsync.own_dynamic

DerivedXmlName == ThemeName \o <<Space, "(SL)", ".", "hidden-", "tmTheme">>

\* C10: for an active scheme that names a derived theme, get_original_theme
\* gives the unmarked original, and the engine writes one derived file only
C10_TrueOriginal ==
    /\ (lastGen.valid /\ lastGen.resolved /\ lastGen.marked)
          => ~IsMarked(basename(paths.scheme_orig))
    /\ \A p \in DOMAIN files : IsMarked(basename(p)) => basename(p) = DerivedXmlName

(***************************************************************************)
(* The structured scope diff on its own: parse_scheme_json applied to      *)
(* bounded inputs, then applied again to the same rules regrouped.         *)
(***************************************************************************)
\* rules of the document
MaxRules == 2

\* required nodes
MaxNodes == 2

DiffScopes == {<<"a">>, <<"b">>, <<"a", "b">>}

\* scope fields: empty, one scope, two scopes, stray whitespace, the scope "ab"
DiffFields ==
    {<<>>, <<"a">>, <<"b">>, <<"a", Space, "b">>, <<Space, "b", Space, Space, "a">>,
     <<"a", "b">>}

DiffRules == {Rule(TRUE, f, <<"a">>, Red) : f \in DiffFields} \cup {NoScopeRule}

SeqsUpTo(S, n) == UNION {[1..k -> S] : k \in 0..n}

\* dicts: no key twice
DiffNodeDicts ==
    {[i \in 1..Len(ks) |-> Entry(ks[i], JsonNode(ks[i], Red, <<>>))] :
        ks \in {q \in SeqsUpTo(DiffScopes, MaxNodes) :
                   \A i, j \in 1..Len(q) : i # j => q[i] # q[j]}}

MainIdle ==
    /\ engine = "json"
    /\ static_nodes = <<>>
    /\ dynamic_nodes = <<>>
    /\ prefs = FALSE
    /\ scheme = <<>>
    /\ paths = NoPaths
    /\ color_scheme = <<>>
    /\ prefsFile = "valid"
    /\ files = (UserDocPath :> Content("json", FALSE, <<>>))
    /\ observer = "on_prefs_update"
    /\ queue = <<>>
    /\ styleDefs = <<>>
    /\ lastGen = NoGen
    /\ lastAsync = NoAsync
    /\ prevAsync = NoAsync
    /\ epoch = 0
    /\ nGen = 0
    /\ nEnv = 0

InitDiff ==
    /\ MainIdle
    /\ dNodes \in DiffNodeDicts
    /\ dRules \in SeqsUpTo(DiffRules, MaxRules)
    /\ dOut = EmptyDict
    /\ dFirst = EmptyDict
    /\ dPhase = "input"

\* parse_scheme_json(nodes, rules=rules)
DiffApply ==
    /\ dPhase = "input"
    /\ dOut' = parse_scheme_json(AsDict(dNodes), dRules).nodes
    /\ dFirst' = dOut'
    /\ dPhase' = "done"
    /\ UNCHANGED <<dNodes, dRules, progVars, hostVars, histVars>>

\* the same scopes in another order: two neighbouring rules change places
DiffSwap ==
    /\ dPhase = "done"
    /\ \E i \in 1..(Len(dRules) - 1) :
          dRules' = [dRules EXCEPT ![i] = dRules[i + 1], ![i + 1] = dRules[i]]
    /\ dOut' = parse_scheme_json(AsDict(dNodes), dRules').nodes
    /\ dPhase' = "regrouped"
    /\ UNCHANGED <<dNodes, dFirst, progVars, hostVars, histVars>>

\* the same scopes grouped differently: two neighbouring rules become one
\* rule that declares the scopes of both
DiffMerge ==
    /\ dPhase = "done"
    /\ \E i \in 1..(Len(dRules) - 1) :
          LET both == Rule(TRUE,
                           (IF dRules[i].has_scope THEN dRules[i].scope ELSE <<>>)
                           \o <<Space>>
                           \o (IF dRules[i + 1].has_scope THEN dRules[i + 1].scope ELSE <<>>),
                           dRules[i].name, dRules[i].settings)
          IN dRules' = SubSeq(dRules, 1, i - 1) \o <<both>> \o Drop(dRules, i + 1)
    /\ dOut' = parse_scheme_json(AsDict(dNodes), dRules').nodes
    /\ dPhase' = "regrouped"
    /\ UNCHANGED <<dNodes, dFirst, progVars, hostVars, histVars>>

NextDiff ==
    \/ DiffApply
    \/ DiffSwap
    \/ DiffMerge

SpecDiff == InitDiff /\ [][NextDiff]_vars

\* a rule declares sc when sc is a whitespace-separated token of its scope field
Declares(rule, sc) ==
    /\ rule.has_scope
    /\ sc # <<>>
    /\ \E i \in 1..Len(rule.scope) :
          LET j == i + Len(sc) - 1
          IN /\ j <= Len(rule.scope)
             /\ SubSeq(rule.scope, i, j) = sc
             /\ \A k \in i..j : rule.scope[k] # Space
             /\ i = 1 \/ rule.scope[i - 1] = Space
             /\ j = Len(rule.scope) \/ rule.scope[j + 1] = Space

Undeclared(nodes, rules) ==
    {e \in Range(nodes) : ~\E i \in 1..Len(rules) : Declares(rules[i], e.scope)}

\* C5: parse_scheme_json returns exactly the required entries whose scope no
\* rule declares, whatever the order and the grouping of the rules
C5_ScopeDiff ==
    dPhase \in {"done", "regrouped"} =>
        /\ dOut = AsDict(SelectSeqBy(dNodes, Undeclared(dNodes, dRules)))
        /\ dOut = dFirst

\* a regrouped document with a rule of several scopes, some required scopes
\* found and some not
C5_Witness ==
    /\ dPhase = "regrouped"
    /\ dOut.items # <<>>
    /\ Len(dOut.items) < Len(dNodes)
    /\ \E i \in 1..Len(dRules) : Cardinality(DeclaredScopes(dRules[i])) >= 2
    /\ \E i \in 1..Len(dRules) : ~dRules[i].has_scope

=============================================================================
